---- MODULE Spec2Model ----
(***************************************************************************)
(* Student/Course API (src/main.py, src/models/course.py,                  *)
(* src/models/student.py): two in-memory dictionaries keyed by UUID and    *)
(* the FastAPI handlers that create, list, get, patch and delete their     *)
(* records.                                                                *)
(*                                                                         *)
(* Representation.                                                         *)
(*   - A Python value that may be None is a sequence of length <= 1:       *)
(*     None is << >> and a value v is << v >>.                             *)
(*   - A Python str is a sequence of one-character strings, so that        *)
(*     str.lower(), == and `in` are computed character by character.       *)
(*   - A Python dict (insertion ordered) is a sequence of                  *)
(*     [key |-> k, val |-> v] entries in insertion order.                  *)
(*   - A pydantic model instance is the record model_dump() gives for it.  *)
(*   - datetime.utcnow() is an integer reading of a clock that does not    *)
(*     run backwards.                                                      *)
(***************************************************************************)
EXTENDS Integers, Sequences, FiniteSets, TLC

VARIABLES
    courses,    \* main.py:23  courses: Dict[UUID, CourseRead]
    students,   \* main.py:22  students: Dict[UUID, StudentRead]
    clock,      \* the last reading of datetime.utcnow()
    resp,       \* the last request served and its response
    threads     \* the handlers in flight when requests are served concurrently

vars == <<courses, students, clock, resp, threads>>

\* ---------------------------------------------------------------- bounds
MaxTime == 1        \* the clock reads 0..MaxTime

\* the identifiers uuid4() returns: two, so that a fresh identifier, a second
\* record and a collision all occur
UUIDs == {1, 2}
Times == 0..MaxTime

\* ------------------------------------------------------- Python values
None == << >>
Some(v) == << v >>
IsNone(x) == x = << >>
Val(x) == x[1]

\* str.lower() on one character, and on a str
LowerChar(c) ==
    CASE c = "A" -> "a"
      [] c = "B" -> "b"
      [] c = "C" -> "c"
      [] c = "E" -> "e"
      [] c = "F" -> "f"
      [] c = "M" -> "m"
      [] c = "N" -> "n"
      [] c = "P" -> "p"
      [] c = "S" -> "s"
      [] c = "W" -> "w"
      [] OTHER -> c

lower(s) == [i \in 1..Len(s) |-> LowerChar(s[i])]

\* Python `needle in haystack` on two strs
StrIn(needle, haystack) ==
    \E i \in 0..(Len(haystack) - Len(needle)) :
        SubSeq(haystack, i + 1, i + Len(needle)) = needle

\* ----------------------------------------------------------- Python dict
Keys(d) == {d[i].key : i \in 1..Len(d)}
Has(d, k) == k \in Keys(d)
IndexOf(d, k) == CHOOSE i \in 1..Len(d) : d[i].key = k
\* d[k]
Lookup(d, k) == d[IndexOf(d, k)].val
\* d[k] = v : an existing key keeps its place, a new key goes last
Put(d, k, v) ==
    IF Has(d, k)
    THEN [d EXCEPT ![IndexOf(d, k)] = [key |-> k, val |-> v]]
    ELSE Append(d, [key |-> k, val |-> v])
\* d.popitem() in place of del d[k]: the last entry goes, whatever k is
Del_PopItem(d, k) == SubSeq(d, 1, Len(d) - 1)
\* del d[k]
Del(d, k) ==
    LET i == IndexOf(d, k)
    IN  SubSeq(d, 1, i - 1) \o SubSeq(d, i + 1, Len(d))
\* list(d.values())
Values(d) == [i \in 1..Len(d) |-> d[i].val]
\* dict.update: stored.update(patch)
DictUpdate(stored, patch) ==
    [f \in DOMAIN stored \cup DOMAIN patch |->
        IF f \in DOMAIN patch THEN patch[f] ELSE stored[f]]

\* the elements of a list
Elems(xs) == {xs[i] : i \in 1..Len(xs)}

\* ------------------------------------------------------- models/course.py
\* CourseBase: the fields declared with `...` (required) and with None
CourseRequired ==
    {"department_code", "course_code", "title", "instructor", "days",
     "start_time", "end_time", "location", "size", "credit"}
CourseOptional == {"section", "enrollment"}
CourseBaseFields == CourseRequired \cup CourseOptional
\* CourseRead adds id, created_at, updated_at, all required
ReadIdentity == {"id", "created_at", "updated_at"}
CourseReadFields == CourseBaseFields \cup ReadIdentity

\* CourseBase(**d) succeeds: every declared field is given, no required one is None
CourseBaseOk(d) ==
    /\ CourseBaseFields \subseteq DOMAIN d
    /\ \A f \in CourseRequired : ~IsNone(d[f])
\* CourseRead(**d) succeeds
CourseReadOk(d) ==
    /\ CourseReadFields \subseteq DOMAIN d
    /\ \A f \in CourseRequired \cup ReadIdentity : ~IsNone(d[f])
\* CourseRead(**d).model_dump(): the declared fields of d
CourseRead(d) == [f \in CourseReadFields |-> d[f]]

\* Valid CourseCreate payloads (as course.model_dump() gives them)
CourseA ==
    [department_code |-> Some(<<"C", "S">>), course_code |-> Some(<<"1">>),
     title |-> Some(<<"A", "b">>), instructor |-> Some(<<"F", "e">>),
     days |-> Some(<<"M", "W">>), start_time |-> Some(<<"1", "P">>),
     end_time |-> Some(<<"2", "P">>), location |-> Some(<<"N">>),
     size |-> Some(10), credit |-> Some(3),
     section |-> None, enrollment |-> None]
CourseB ==
    [department_code |-> Some(<<"c", "s">>), course_code |-> Some(<<"2">>),
     title |-> Some(<<"b">>), instructor |-> Some(<<"e">>),
     days |-> Some(<<"F">>), start_time |-> Some(<<"1", "p">>),
     end_time |-> Some(<<"3", "P">>), location |-> Some(<<"M">>),
     size |-> Some(20), credit |-> Some(4),
     section |-> Some(<<"1">>), enrollment |-> Some(5)]
CourseCreates == {CourseA, CourseB}

\* CourseUpdate payloads as update.model_dump(exclude_unset=True) gives them:
\* only the fields the request set, a field set to null included
NoFields == << >>
CourseUpdates ==
    {NoFields,
     [days |-> Some(<<"F">>)],
     [title |-> Some(<<"b">>), size |-> Some(20)],
     [section |-> None],
     [title |-> None]}
\* CourseUpdate(**body) succeeds: every field is Optional[...] = None, so a
\* field set to null passes, a Create-required one included
CourseUpdateOk(u) == DOMAIN u \subseteq CourseBaseFields
\* the bodies PATCH /courses/{course_id} is sent
CourseUpdateBodies == CourseUpdates

\* ------------------------------------------------------ models/student.py
StudentRequired == {"uni", "first_name", "last_name", "major", "grade", "email"}
StudentOptional == {"phone", "birth_date"}
\* courses: List[CourseBase], default []: given or not, it is never None
StudentBaseFields == StudentRequired \cup StudentOptional \cup {"courses"}
StudentReadFields == StudentBaseFields \cup ReadIdentity

\* CourseBase(**c).model_dump()
CourseBase(c) == [f \in CourseBaseFields |-> c[f]]

\* StudentRead(**d) succeeds
StudentReadOk(d) ==
    /\ StudentReadFields \subseteq DOMAIN d
    /\ \A f \in StudentRequired \cup ReadIdentity : ~IsNone(d[f])
    /\ ~IsNone(d.courses)
    /\ \A i \in 1..Len(Val(d.courses)) : CourseBaseOk(Val(d.courses)[i])
\* StudentRead(**d).model_dump()
StudentRead(d) ==
    [f \in StudentReadFields |->
        IF f = "courses"
        THEN Some([i \in 1..Len(Val(d.courses)) |-> CourseBase(Val(d.courses)[i])])
        ELSE d[f]]

\* Valid StudentCreate payloads (as student.model_dump() gives them)
StudentX ==
    [uni |-> Some(<<"a", "b", "1">>), first_name |-> Some(<<"A">>),
     last_name |-> Some(<<"B">>), major |-> Some(<<"C", "S">>),
     grade |-> Some(<<"S">>), email |-> Some(<<"a", "@", "b">>),
     phone |-> None, birth_date |-> None,
     courses |-> Some(<<CourseA>>)]
StudentY ==
    [uni |-> Some(<<"c", "e", "2">>), first_name |-> Some(<<"a">>),
     last_name |-> Some(<<"e">>), major |-> Some(<<"c", "s">>),
     grade |-> Some(<<"s">>), email |-> Some(<<"A", "@", "b">>),
     phone |-> Some(<<"1">>), birth_date |-> Some(<<"1", "-", "2">>),
     courses |-> Some(<<CourseB, CourseA>>)]
StudentZ ==
    [uni |-> Some(<<"e", "f", "3">>), first_name |-> Some(<<"E">>),
     last_name |-> Some(<<"F">>), major |-> Some(<<"M">>),
     grade |-> Some(<<"s">>), email |-> Some(<<"e", "@", "b">>),
     phone |-> Some(<<"2">>), birth_date |-> None,
     courses |-> Some(<< >>)]
StudentCreates == {StudentX, StudentY, StudentZ}

\* StudentUpdate payloads as update.model_dump(exclude_unset=True) gives them
StudentUpdates ==
    {NoFields,
     [first_name |-> Some(<<"E">>), last_name |-> Some(<<"F">>)],
     [courses |-> Some(<<CourseB>>)],
     [uni |-> None]}

\* student.py:11: UNIType, a str matching ^[a-z]{2,3}\d{1,4}$
LowerLetters == {"a", "b", "c", "e", "f", "m", "n", "p", "s", "w"}
Digits == {"0", "1", "2", "3", "4", "5", "6", "7", "8", "9"}
UNIType(s) ==
    \E k \in 2..3 :
        /\ Len(s) \in (k + 1)..(k + 4)
        /\ \A i \in 1..k : s[i] \in LowerLetters
        /\ \A i \in (k + 1)..Len(s) : s[i] \in Digits
\* StudentUpdate(**body) succeeds: every field is Optional[...] = None, so null
\* passes; a uni that is given must match the pattern and the courses that are
\* given must be CourseBase records
StudentUpdateOk(u) ==
    /\ DOMAIN u \subseteq StudentBaseFields
    /\ ("uni" \in DOMAIN u /\ ~IsNone(u.uni)) => UNIType(Val(u.uni))
    /\ ("courses" \in DOMAIN u /\ ~IsNone(u.courses)) =>
            \A i \in 1..Len(Val(u.courses)) : CourseBaseOk(Val(u.courses)[i])
\* the bodies PATCH /students/{student_id} is sent: one has an ill-formed uni
StudentUpdateBodies == StudentUpdates \cup {[uni |-> Some(<<"A", "1">>)]}

\* ---------------------------------------------------------------- responses
Response(op, req, id, status, err, body) ==
    [op |-> op, req |-> req, id |-> id, status |-> status, err |-> err, body |-> body]
\* raise HTTPException(status_code=..., detail=...)
HTTPException(op, req, id, status, detail) ==
    Response(op, req, id, status, detail, << >>)
\* an exception no handler catches: 500 Internal Server Error
Uncaught(op, req, id, exc) == Response(op, req, id, 500, exc, << >>)
\* a body the handler's parameter type rejects: 422 Unprocessable Entity; the
\* handler is not called
RequestValidationError(op, req, id) ==
    /\ resp' = Response(op, req, Some(id), 422, "RequestValidationError", << >>)
    /\ UNCHANGED <<courses, students, clock, threads>>

\* ------------------------------------------------------------ main.py:34-49
\* utcnow() called once per timestamp: created_at gets the earlier reading
NewCourseRead_TwoClockReads(course, new_id, now) ==
    CourseRead(DictUpdate(
        [id |-> Some(new_id), created_at |-> Some(clock), updated_at |-> Some(now)],
        course))
\* the record create_course stores
NewCourseRead(course, new_id, now) ==
    CourseRead(DictUpdate(
        [id |-> Some(new_id), created_at |-> Some(now), updated_at |-> Some(now)],
        course))

create_course(course, new_id, now) ==
    /\ clock' = now
    /\ IF Has(courses, new_id)
       THEN /\ resp' = HTTPException("create_course", course, Some(new_id), 400,
                                     "Course with this ID already exists")
            /\ UNCHANGED courses
       ELSE /\ courses' = Put(courses, new_id, NewCourseRead(course, new_id, now))
            /\ resp' = Response("create_course", course, Some(new_id), 201, "",
                                << Lookup(courses', new_id) >>)
    /\ UNCHANGED <<students, threads>>

\* ------------------------------------------------------------ main.py:52-79
\* One `if param is not None: results = [x for x in results if cond(x)]` step.
\* st is [err, results]; raising holds the elements x of results for which
\* evaluating cond(x) raises exc, which ends the handler, and keeping those for
\* which cond(x) is true; an unsupplied parameter and an earlier error skip the
\* step.
FilterStep(st, param, exc, raising, keeping) ==
    IF st.err # "" \/ IsNone(param) THEN st
    ELSE IF \E i \in 1..Len(st.results) : st.results[i] \in raising
         THEN [err |-> exc, results |-> << >>]
         ELSE [err |-> "", results |-> SelectSeq(st.results, LAMBDA x : x \in keeping)]

\* getattr(obj, name) raises AttributeError: the model has no such field
NoAttr(obj, name) == name \notin DOMAIN obj

\* the query parameters of list_courses, each None when not supplied
CourseQueries ==
    [department_code : {None, Some(<<"c", "s">>)},
     course_code : {None, Some(<<"1">>)},
     title : {None, Some(<<"B">>)},
     instructor : {None, Some(<<"E">>)},
     days : {None, Some(<<"f">>)},
     start_time : {None, Some(<<"1", "p">>)},
     end_time : {None, Some(<<"2", "p">>)}]

\* the requests the model sends: those that supply exactly these parameters
CourseQuerySample ==
    {q \in CourseQueries :
        {f \in DOMAIN q : ~IsNone(q[f])} \in
            {{}, {"department_code"}, {"course_code"}, {"days"},
             {"department_code", "title"}, DOMAIN q}}

list_courses_run(store, q) ==
    LET s0 == [err |-> "", results |-> Values(store)]
        s1 == FilterStep(s0, q.department_code, "", {},
                {c \in Elems(s0.results) :
                    lower(Val(c.department_code)) = lower(Val(q.department_code))})
        \* line 67 reads c.course_id
        s2 == FilterStep(s1, q.course_code, "AttributeError",
                {c \in Elems(s1.results) : NoAttr(c, "course_id")},
                {c \in Elems(s1.results) : c["course_id"] = q.course_code})
        s3 == FilterStep(s2, q.title, "", {},
                {c \in Elems(s2.results) : StrIn(lower(Val(q.title)), lower(Val(c.title)))})
        s4 == FilterStep(s3, q.instructor, "", {},
                {c \in Elems(s3.results) :
                    StrIn(lower(Val(q.instructor)), lower(Val(c.instructor)))})
        s5 == FilterStep(s4, q.days, "", {},
                {c \in Elems(s4.results) : StrIn(lower(Val(q.days)), lower(Val(c.days)))})
        s6 == FilterStep(s5, q.start_time, "", {},
                {c \in Elems(s5.results) :
                    lower(Val(c.start_time)) = lower(Val(q.start_time))})
        s7 == FilterStep(s6, q.end_time, "", {},
                {c \in Elems(s6.results) :
                    lower(Val(c.end_time)) = lower(Val(q.end_time))})
    IN  s7

list_courses(q) ==
    /\ LET r == list_courses_run(courses, q)
       IN  resp' = IF r.err # ""
                   THEN Uncaught("list_courses", q, None, r.err)
                   ELSE Response("list_courses", q, None, 200, "", r.results)
    /\ UNCHANGED <<courses, students, clock, threads>>

\* ------------------------------------------------------------ main.py:81-85
get_course(course_id) ==
    /\ resp' = IF ~Has(courses, course_id)
               THEN HTTPException("get_course", << >>, Some(course_id), 404,
                                  "Course not found")
               ELSE Response("get_course", << >>, Some(course_id), 200, "",
                             << Lookup(courses, course_id) >>)
    /\ UNCHANGED <<courses, students, clock, threads>>

\* ------------------------------------------------------------ main.py:87-97
\* line 95 left out: updated_at is not stamped
MergedCourse_NoStamp(old, update, now) == DictUpdate(old, update)
\* line 95 writes the wrong key: stored["created_at"] = now
MergedCourse_StampsCreatedAt(old, update, now) ==
    [DictUpdate(old, update) EXCEPT !["created_at"] = Some(now)]
\* line 92 reads a clock that lags the one create_course reads
MergedCourse_LaggingClock(old, update, now) ==
    [DictUpdate(old, update) EXCEPT !["updated_at"] = Some(now - 1)]
\* stored = courses[course_id].model_dump(); stored.update(...); stored["updated_at"] = now
MergedCourse(old, update, now) ==
    [DictUpdate(old, update) EXCEPT !["updated_at"] = Some(now)]

\* line 95 done on the stored model itself: courses[course_id].updated_at = now
update_course_StampsInPlace(course_id, update, now) ==
    IF ~Has(courses, course_id)
    THEN /\ resp' = HTTPException("update_course", update, Some(course_id), 404,
                                  "Course not found")
         /\ UNCHANGED <<courses, students, clock, threads>>
    ELSE /\ clock' = now
         /\ LET stored == MergedCourse(Lookup(courses, course_id), update, now)
            IN  IF CourseReadOk(stored)
                THEN /\ courses' = Put(courses, course_id, CourseRead(stored))
                     /\ resp' = Response("update_course", update, Some(course_id), 200,
                                         "", << Lookup(courses', course_id) >>)
                ELSE /\ resp' = Uncaught("update_course", update, Some(course_id),
                                         "ValidationError")
                     /\ courses' = Put(courses, course_id,
                            [Lookup(courses, course_id) EXCEPT !["updated_at"] = Some(now)])
         /\ UNCHANGED <<students, threads>>

update_course(course_id, update, now) ==
    IF ~Has(courses, course_id)
    THEN /\ resp' = HTTPException("update_course", update, Some(course_id), 404,
                                  "Course not found")
         /\ UNCHANGED <<courses, students, clock, threads>>
    ELSE /\ clock' = now
         /\ LET stored == MergedCourse(Lookup(courses, course_id), update, now)
            IN  IF CourseReadOk(stored)
                THEN /\ courses' = Put(courses, course_id, CourseRead(stored))
                     /\ resp' = Response("update_course", update, Some(course_id), 200,
                                         "", << Lookup(courses', course_id) >>)
                ELSE /\ resp' = Uncaught("update_course", update, Some(course_id),
                                         "ValidationError")
                     /\ UNCHANGED courses
         /\ UNCHANGED <<students, threads>>

\* ----------------------------------------------------------- main.py:99-105
\* a delete that also drops the course from the students that embed it
delete_course_Cascade(course_id) ==
    /\ IF ~Has(courses, course_id)
       THEN /\ resp' = HTTPException("delete_course", << >>, Some(course_id), 404,
                                     "Course not found")
            /\ UNCHANGED <<courses, students>>
       ELSE /\ courses' = Del(courses, course_id)
            /\ resp' = Response("delete_course", << >>, Some(course_id), 200, "",
                                << Lookup(courses, course_id) >>)
            /\ students' =
                 [i \in 1..Len(students) |->
                    [key |-> students[i].key,
                     val |-> [students[i].val EXCEPT !["courses"] =
                        Some(SelectSeq(Val(@), LAMBDA c :
                            c.course_code # Lookup(courses, course_id).course_code))]]]
    /\ UNCHANGED <<clock, threads>>
delete_course(course_id) ==
    /\ IF ~Has(courses, course_id)
       THEN /\ resp' = HTTPException("delete_course", << >>, Some(course_id), 404,
                                     "Course not found")
            /\ UNCHANGED courses
       ELSE /\ courses' = Del(courses, course_id)
            /\ resp' = Response("delete_course", << >>, Some(course_id), 200, "",
                                << Lookup(courses, course_id) >>)
    /\ UNCHANGED <<students, clock, threads>>

\* ---------------------------------------------------------- main.py:110-124
NewStudentRead(student, new_id, now) ==
    StudentRead(DictUpdate(
        [id |-> Some(new_id), created_at |-> Some(now), updated_at |-> Some(now)],
        student))

\* obj[key] = value and obj[key] need __setitem__ / __getitem__: a dict has them,
\* a pydantic model (StudentRead) and a UUID have not, and the statement raises
\* TypeError
Subscriptable(type) == type = "dict"

create_student(student, new_id, now) ==
    \* line 114 looks the new id up in courses
    IF Has(courses, new_id)
    THEN /\ resp' = HTTPException("create_student", student, Some(new_id), 400,
                                  "Student with this ID already exists")
         /\ UNCHANGED <<courses, students, clock, threads>>
    ELSE /\ clock' = now
         /\ LET student_read == NewStudentRead(student, new_id, now)
            IN  \* line 123: student_read[new_id] = student_read
                IF Subscriptable("StudentRead")
                THEN /\ resp' = Response("create_student", student, Some(new_id), 201,
                                         "", << student_read >>)
                     /\ UNCHANGED students
                ELSE /\ resp' = Uncaught("create_student", student, Some(new_id),
                                         "TypeError")
                     /\ UNCHANGED students
         /\ UNCHANGED <<courses, threads>>

\* ---------------------------------------------------------- main.py:126-164
\* str(s.birth_date)
PyStr(x) == IF IsNone(x) THEN <<"N", "o", "n", "e">> ELSE Val(x)

\* the names list_students can read inside its comprehensions: its parameters,
\* the comprehension variables and the module's globals
ListStudentsNames ==
    {"uni", "first_name", "last_name", "major", "grade", "email", "phone",
     "birth_date", "department_code", "instructor", "results", "s", "course",
     "students", "courses", "app", "port", "os", "socket"}
Undefined(name) == name \notin ListStudentsNames

StudentQueries ==
    [uni : {None, Some(<<"A", "B", "1">>)},
     first_name : {None, Some(<<"a">>)},
     last_name : {None, Some(<<"E">>)},
     major : {None, Some(<<"c", "S">>)},
     grade : {None, Some(<<"s">>)},
     email : {None, Some(<<"a", "@", "b">>)},
     phone : {None, Some(<<"1">>)},
     birth_date : {None, Some(<<"N", "o", "n", "e">>)},
     department_code : {None, Some(<<"C", "s">>)},
     instructor : {None, Some(<<"E">>)}]
\* the requests the model sends: those that supply exactly these parameters
StudentQuerySample ==
    {q \in StudentQueries :
        {f \in DOMAIN q : ~IsNone(q[f])} \in
            {{}, {"uni"}, {"department_code"}, {"instructor"},
             {"department_code", "instructor"}, {"major", "instructor"}}}

list_students_run(store, q) ==
    LET s0 == [err |-> "", results |-> Values(store)]
        s1 == FilterStep(s0, q.uni, "", {},
                {s \in Elems(s0.results) : lower(Val(s.uni)) = lower(Val(q.uni))})
        s2 == FilterStep(s1, q.first_name, "", {},
                {s \in Elems(s1.results) :
                    lower(Val(s.first_name)) = lower(Val(q.first_name))})
        s3 == FilterStep(s2, q.last_name, "", {},
                {s \in Elems(s2.results) :
                    lower(Val(s.last_name)) = lower(Val(q.last_name))})
        s4 == FilterStep(s3, q.major, "", {},
                {s \in Elems(s3.results) : lower(Val(s.major)) = lower(Val(q.major))})
        s5 == FilterStep(s4, q.grade, "", {},
                {s \in Elems(s4.results) : lower(Val(s.grade)) = lower(Val(q.grade))})
        s6 == FilterStep(s5, q.email, "", {},
                {s \in Elems(s5.results) : s.email = q.email})
        s7 == FilterStep(s6, q.phone, "", {},
                {s \in Elems(s6.results) : s.phone = q.phone})
        s8 == FilterStep(s7, q.birth_date, "", {},
                {s \in Elems(s7.results) : PyStr(s.birth_date) = Val(q.birth_date)})
        \* any(course.department_code.lower() == ... for course in s.courses)
        s9 == FilterStep(s8, q.department_code, "", {},
                {s \in Elems(s8.results) :
                    \E i \in 1..Len(Val(s.courses)) :
                        lower(Val(Val(s.courses)[i].department_code))
                            = lower(Val(q.department_code))})
        \* line 162 iterates p.courses
        s10 == FilterStep(s9, q.instructor, "NameError",
                {s \in Elems(s9.results) : Undefined("p")},
                {s \in Elems(s9.results) :
                    \E i \in 1..Len(Val(s.courses)) :
                        lower(Val(Val(s.courses)[i].instructor))
                            = lower(Val(q.instructor))})
    IN  s10

list_students(q) ==
    /\ LET r == list_students_run(students, q)
       IN  resp' = IF r.err # ""
                   THEN Uncaught("list_students", q, None, r.err)
                   ELSE Response("list_students", q, None, 200, "", r.results)
    /\ UNCHANGED <<courses, students, clock, threads>>

\* ---------------------------------------------------------- main.py:166-170
get_person(student_id) ==
    /\ resp' = IF ~Has(students, student_id)
               THEN HTTPException("get_person", << >>, Some(student_id), 404,
                                  "Student not found")
               \* line 170: return student_id[student_id]
               ELSE IF Subscriptable("UUID")
                    THEN Response("get_person", << >>, Some(student_id), 200, "",
                                  << Lookup(students, student_id) >>)
                    ELSE Uncaught("get_person", << >>, Some(student_id), "TypeError")
    /\ UNCHANGED <<courses, students, clock, threads>>

\* ---------------------------------------------------------- main.py:172-182
MergedStudent(old, update, now) ==
    [DictUpdate(old, update) EXCEPT !["updated_at"] = Some(now)]

update_person(student_id, update, now) ==
    IF ~Has(students, student_id)
    THEN /\ resp' = HTTPException("update_person", update, Some(student_id), 404,
                                  "Student not found")
         /\ UNCHANGED <<courses, students, clock, threads>>
    ELSE /\ clock' = now
         /\ LET stored == MergedStudent(Lookup(students, student_id), update, now)
            IN  IF StudentReadOk(stored)
                THEN /\ students' = Put(students, student_id, StudentRead(stored))
                     /\ resp' = Response("update_person", update, Some(student_id), 200,
                                         "", << Lookup(students', student_id) >>)
                ELSE /\ resp' = Uncaught("update_person", update, Some(student_id),
                                         "ValidationError")
                     /\ UNCHANGED students
         /\ UNCHANGED <<courses, threads>>

\* ---------------------------------------------------------- main.py:184-190
delete_person(student_id) ==
    /\ IF ~Has(students, student_id)
       THEN /\ resp' = HTTPException("delete_person", << >>, Some(student_id), 404,
                                     "Student not found")
            /\ UNCHANGED students
       ELSE /\ students' = Del(students, student_id)
            /\ resp' = Response("delete_person", << >>, Some(student_id), 200, "",
                                << Lookup(students, student_id) >>)
    /\ UNCHANGED <<courses, clock, threads>>

\* ---------------------------------------------------------- main.py:195-197
root ==
    /\ resp' = Response("root", << >>, None, 200, "", << >>)
    /\ UNCHANGED <<courses, students, clock, threads>>

\* -------------------------------------------------------------- specification
NoResponse == Response("none", << >>, None, 0, "", << >>)

Init ==
    /\ courses = << >>
    /\ students = << >>
    /\ clock = 0
    /\ resp = NoResponse
    /\ threads = << >>

\* datetime.utcnow(): a reading not before the last one
Now == {t \in Times : t >= clock}

CreateCourse == \E c \in CourseCreates, id \in UUIDs, now \in Now : create_course(c, id, now)
ListCourses == \E q \in CourseQuerySample : list_courses(q)
GetCourse == \E id \in UUIDs : get_course(id)
UpdateCourse ==
    \E id \in UUIDs, u \in CourseUpdateBodies, now \in Now :
        IF CourseUpdateOk(u) THEN update_course(id, u, now)
        ELSE RequestValidationError("update_course", u, id)
DeleteCourse == \E id \in UUIDs : delete_course(id)

CreateStudent == \E st \in StudentCreates, id \in UUIDs, now \in Now : create_student(st, id, now)
ListStudents == \E q \in StudentQuerySample : list_students(q)
GetPerson == \E id \in UUIDs : get_person(id)
UpdatePerson ==
    \E id \in UUIDs, u \in StudentUpdateBodies, now \in Now :
        IF StudentUpdateOk(u) THEN update_person(id, u, now)
        ELSE RequestValidationError("update_person", u, id)
DeletePerson == \E id \in UUIDs : delete_person(id)
Root == root

Next ==
    \/ CreateCourse
    \/ ListCourses
    \/ GetCourse
    \/ UpdateCourse
    \/ DeleteCourse
    \/ CreateStudent
    \/ ListStudents
    \/ GetPerson
    \/ UpdatePerson
    \/ DeletePerson
    \/ Root

Spec == Init /\ [][Next]_vars

\* ------------------------------------------------- the student handlers alone
\* create_student stores nothing (line 123), so no request fills the students
\* dictionary. The student handlers are run here from every students dictionary
\* of at most one valid StudentRead record per identifier, as create_student builds them.
StudentStores ==
    UNION {
        {[i \in 1..n |-> [key |-> ks[i], val |-> NewStudentRead(ps[i], ks[i], 0)]] :
            ks \in {k \in [1..n -> UUIDs] : \A i, j \in 1..n : k[i] = k[j] => i = j},
            ps \in [1..n -> StudentCreates]} :
        n \in 0..Cardinality(UUIDs)}

InitStudents ==
    /\ courses \in {<< >>, Put(<< >>, 1, NewCourseRead(CourseA, 1, 0))}
    /\ students \in StudentStores
    /\ clock = 0
    /\ resp = NoResponse
    /\ threads = << >>

NextStudents ==
    \/ CreateStudent
    \/ ListStudents
    \/ GetPerson
    \/ UpdatePerson
    \/ DeletePerson

SpecStudents == InitStudents /\ [][NextStudents]_vars

\* Both dictionaries under every handler: the course handlers run while students
\* holds a record, which no request can bring about (create_student stores
\* nothing), so the dictionaries are drawn; the records were stored at time 0
\* and the clock has since reached its last reading.
InitStores ==
    /\ courses \in {<< >>, Put(<< >>, 1, NewCourseRead(CourseA, 1, 0))}
    /\ students \in {Put(<< >>, 1, NewStudentRead(StudentX, 1, 0)),
                     Put(<< >>, 2, NewStudentRead(StudentZ, 2, 0))}
    /\ clock = MaxTime
    /\ resp = NoResponse
    /\ threads = << >>

SpecStores == InitStores /\ [][Next]_vars

\* --------------------------------------------- requests served concurrently
\* FastAPI runs a handler declared with `def` in a worker thread, so two
\* requests run at once and the interpreter may switch threads between any two
\* statements. update_course and delete_course are taken statement by
\* statement; each thread keeps its own locals, and nothing in main.py locks
\* the dictionary.
Threads == {"t1", "t2"}

Idle == [pc |-> "idle", op |-> "none", id |-> None, update |-> NoFields,
         stored |-> None, status |-> 0, err |-> "", body |-> << >>]

\* two patches that set different fields
ConcurrentUpdates == {[days |-> Some(<<"F">>)], [title |-> Some(<<"b">>), size |-> Some(20)]}

Free(t) == threads[t].pc \in {"idle", "done"}
At(t, pc) == threads[t].pc = pc
Goto(t, pc) == threads' = [threads EXCEPT ![t].pc = pc]
\* the handler ends: a return, or an exception that leaves it
Finish(t, status, err, body) ==
    threads' = [threads EXCEPT ![t].pc = "done", ![t].status = status,
                               ![t].err = err, ![t].body = body]

\* a PATCH /courses/{course_id} arrives
StartUpdate(t) ==
    /\ Free(t)
    /\ \E id \in UUIDs, u \in ConcurrentUpdates :
        threads' = [threads EXCEPT ![t] =
            [Idle EXCEPT !.pc = "u89", !.op = "update_course", !.id = Some(id),
                         !.update = u]]
    /\ UNCHANGED <<courses, students, clock, resp>>

\* main.py:89-90  if course_id not in courses: raise 404
UpdateCheck(t) ==
    /\ At(t, "u89")
    /\ IF ~Has(courses, Val(threads[t].id))
       THEN Finish(t, 404, "Course not found", << >>)
       ELSE Goto(t, "u92")
    /\ UNCHANGED <<courses, students, clock, resp>>

\* main.py:92-95  now = utcnow(); stored = courses[course_id].model_dump(); merge
UpdateRead(t) ==
    /\ At(t, "u92")
    /\ \E now \in Now :
        /\ clock' = now
        /\ IF ~Has(courses, Val(threads[t].id))
           THEN Finish(t, 500, "KeyError", << >>)
           ELSE threads' = [threads EXCEPT
                    ![t].pc = "u96",
                    ![t].stored = Some(MergedCourse(Lookup(courses, Val(threads[t].id)),
                                                    threads[t].update, now))]
    /\ UNCHANGED <<courses, students, resp>>

\* main.py:96  courses[course_id] = CourseRead(**stored)
UpdateWrite(t) ==
    /\ At(t, "u96")
    /\ IF CourseReadOk(Val(threads[t].stored))
       THEN /\ courses' = Put(courses, Val(threads[t].id), CourseRead(Val(threads[t].stored)))
            /\ Goto(t, "u97")
       ELSE /\ Finish(t, 500, "ValidationError", << >>)
            /\ UNCHANGED courses
    /\ UNCHANGED <<students, clock, resp>>

\* main.py:97  return courses[course_id]
UpdateReturn(t) ==
    /\ At(t, "u97")
    /\ IF ~Has(courses, Val(threads[t].id))
       THEN Finish(t, 500, "KeyError", << >>)
       ELSE Finish(t, 200, "", << Lookup(courses, Val(threads[t].id)) >>)
    /\ UNCHANGED <<courses, students, clock, resp>>

\* a DELETE /courses/{course_id} arrives
StartDelete(t) ==
    /\ Free(t)
    /\ \E id \in UUIDs :
        threads' = [threads EXCEPT ![t] =
            [Idle EXCEPT !.pc = "d101", !.op = "delete_course", !.id = Some(id)]]
    /\ UNCHANGED <<courses, students, clock, resp>>

\* main.py:101-102  if course_id not in courses: raise 404
DeleteCheck(t) ==
    /\ At(t, "d101")
    /\ IF ~Has(courses, Val(threads[t].id))
       THEN Finish(t, 404, "Course not found", << >>)
       ELSE Goto(t, "d103")
    /\ UNCHANGED <<courses, students, clock, resp>>

\* main.py:103  course_to_delete = courses[course_id]
DeleteRead(t) ==
    /\ At(t, "d103")
    /\ IF ~Has(courses, Val(threads[t].id))
       THEN Finish(t, 500, "KeyError", << >>)
       ELSE threads' = [threads EXCEPT
                ![t].pc = "d104",
                ![t].stored = Some(Lookup(courses, Val(threads[t].id)))]
    /\ UNCHANGED <<courses, students, clock, resp>>

\* main.py:104-105  del courses[course_id]; return course_to_delete
DeleteRemove(t) ==
    /\ At(t, "d104")
    /\ IF ~Has(courses, Val(threads[t].id))
       THEN /\ Finish(t, 500, "KeyError", << >>)
            /\ UNCHANGED courses
       ELSE /\ courses' = Del(courses, Val(threads[t].id))
            /\ Finish(t, 200, "", << Val(threads[t].stored) >>)
    /\ UNCHANGED <<students, clock, resp>>

\* the dictionary after one create_course, and no request in flight
InitConcurrent ==
    /\ courses = Put(<< >>, 1, NewCourseRead(CourseA, 1, 0))
    /\ students = << >>
    /\ clock = 0
    /\ resp = NoResponse
    /\ threads = [t \in Threads |-> Idle]

NextConcurrent ==
    \E t \in Threads :
        \/ StartUpdate(t)
        \/ UpdateCheck(t)
        \/ UpdateRead(t)
        \/ UpdateWrite(t)
        \/ UpdateReturn(t)
        \/ StartDelete(t)
        \/ DeleteCheck(t)
        \/ DeleteRead(t)
        \/ DeleteRemove(t)

SpecConcurrent == InitConcurrent /\ [][NextConcurrent]_vars

\* ===================================================================== claims
\* A step is the handler named by resp'.op: every handler writes its own name
\* there, and [][...]_vars skips the steps that change nothing. A request whose
\* body was rejected (422) names the route, and its handler did not run.
Served(op) == resp'.op = op /\ resp'.status # 422
PathId == Val(resp'.id)
\* every entry of d other than k's is in d2, unchanged and at the same place
OthersKept(d, d2, k) ==
    /\ Len(d2) = Len(d)
    /\ \A i \in 1..Len(d) : d[i].key # k => d2[i] = d[i]

\* C1: a create_course whose new identifier is not yet a key answers 201, adds
\* exactly one entry, under that identifier and after the existing entries, and
\* returns it; the entry's CourseBase fields are the payload's, its id is the
\* key, its created_at equals its updated_at, and the earlier entries are as
\* they were.
C1_CreateCourseStoresPayload ==
    [][(Served("create_course") /\ ~Has(courses, PathId)) =>
        /\ resp'.status = 201
        /\ Len(courses') = Len(courses) + 1
        /\ SubSeq(courses', 1, Len(courses)) = courses
        /\ courses'[Len(courses')].key = PathId
        /\ LET rec == Lookup(courses', PathId)
           IN  /\ resp'.body = << rec >>
               /\ DOMAIN rec = CourseReadFields
               /\ \A f \in CourseBaseFields : rec[f] = resp'.req[f]
               /\ rec.id = Some(PathId)
               /\ ~IsNone(rec.created_at)
               /\ rec.created_at = rec.updated_at]_vars

C1_Witness ==
    /\ resp.op = "create_course"
    /\ resp.status = 201
    /\ Len(courses) = 2
    /\ clock = 1
    /\ resp.body = << courses[2].val >>

\* C2: every create_student answers 201 with a record that is stored in students
\* under the new identifier, with the payload's fields and equal timestamps, and
\* get_person of a stored identifier answers 200 with the stored record.
C2_CreateStudentStores ==
    /\ resp.op = "create_student" =>
        /\ resp.status = 201
        /\ Has(students, Val(resp.id))
        /\ resp.body = << Lookup(students, Val(resp.id)) >>
        /\ \A f \in StudentBaseFields : resp.body[1][f] = resp.req[f]
        /\ resp.body[1].created_at = resp.body[1].updated_at
    /\ (resp.op = "get_person" /\ Has(students, Val(resp.id))) =>
        /\ resp.status = 200
        /\ resp.body = << Lookup(students, Val(resp.id)) >>

\* C3: a partial update that answers 200 leaves every field the payload does not
\* name as it was (updated_at apart), sets every field the payload names to the
\* payload's value, keeps id and created_at, sets updated_at to the clock reading
\* of the request, returns the stored record and leaves every other record, and
\* the order of the dictionary, as they were.
UpdateFrame(d, d2) ==
    LET old == Lookup(d, PathId)
        new == Lookup(d2, PathId)
        update == resp'.req
    IN  /\ Has(d, PathId) /\ Has(d2, PathId)
        /\ DOMAIN new = DOMAIN old
        /\ \A f \in DOMAIN old \ (DOMAIN update \cup {"updated_at"}) : new[f] = old[f]
        /\ \A f \in DOMAIN update : new[f] = update[f]
        /\ new.id = old.id
        /\ new.created_at = old.created_at
        /\ new.updated_at = Some(clock')
        /\ resp'.body = << new >>
        /\ OthersKept(d, d2, PathId)
        /\ d2[IndexOf(d, PathId)].key = PathId

C3_UpdateTouchesOnlyPresentFields ==
    [][/\ (Served("update_course") /\ resp'.status = 200) => UpdateFrame(courses, courses')
       /\ (Served("update_person") /\ resp'.status = 200) => UpdateFrame(students, students')
      ]_vars

C3_Witness ==
    /\ resp.op = "update_course"
    /\ resp.status = 200
    /\ DOMAIN resp.req = {"title", "size"}
    /\ Len(courses) = 2
    /\ resp.body[1].days = Some(<<"M", "W">>)
    /\ resp.body[1].created_at = Some(0)
    /\ resp.body[1].updated_at = Some(1)

\* C4: delete of a stored identifier answers 200 with the record stored before
\* the call and removes that entry and no other; get, partial update and delete
\* of an identifier that is not stored answer 404; and an identifier that is not
\* stored becomes stored again only by a create that mints it.
DeleteFrame(d, d2) ==
    IF Has(d, PathId)
    THEN /\ resp'.status = 200
         /\ resp'.body = << Lookup(d, PathId) >>
         /\ d2 = SelectSeq(d, LAMBDA e : e.key # PathId)
         /\ Len(d2) = Len(d) - 1
    ELSE resp'.status = 404 /\ d2 = d

C4_DeleteThenNotFound ==
    [][/\ Served("delete_course") => DeleteFrame(courses, courses')
       /\ Served("delete_person") => DeleteFrame(students, students')
       /\ \A op \in {"get_course", "update_course"} :
            (Served(op) /\ ~Has(courses, PathId)) =>
                resp'.status = 404 /\ courses' = courses
       /\ \A op \in {"get_person", "update_person"} :
            (Served(op) /\ ~Has(students, PathId)) =>
                resp'.status = 404 /\ students' = students
       /\ \A id \in UUIDs :
            /\ (~Has(courses, id) /\ Has(courses', id)) =>
                 Served("create_course") /\ resp'.id = Some(id)
            /\ (~Has(students, id) /\ Has(students', id)) =>
                 Served("create_student") /\ resp'.id = Some(id)
      ]_vars

C4_Witness ==
    /\ resp.op = "delete_course"
    /\ resp.status = 200
    /\ ~Has(courses, Val(resp.id))
    /\ Len(courses) = 1
    /\ resp.body[1].id = resp.id

\* what a course must satisfy to be listed under query q
CourseMatches(c, q) ==
    /\ ~IsNone(q.department_code) =>
         lower(Val(c.department_code)) = lower(Val(q.department_code))
    /\ ~IsNone(q.course_code) => c.course_code = q.course_code
    /\ ~IsNone(q.title) => StrIn(lower(Val(q.title)), lower(Val(c.title)))
    /\ ~IsNone(q.instructor) => StrIn(lower(Val(q.instructor)), lower(Val(c.instructor)))
    /\ ~IsNone(q.days) => StrIn(lower(Val(q.days)), lower(Val(c.days)))
    /\ ~IsNone(q.start_time) => lower(Val(c.start_time)) = lower(Val(q.start_time))
    /\ ~IsNone(q.end_time) => lower(Val(c.end_time)) = lower(Val(q.end_time))

\* C5: whatever parameters are supplied, list_courses answers 200 with exactly
\* the stored courses that match every supplied parameter, in the dictionary's
\* order (all of them when none is supplied).
C5_ListCoursesExact ==
    resp.op = "list_courses" =>
        /\ resp.status = 200
        /\ resp.body = SelectSeq(Values(courses),
                                 LAMBDA c : CourseMatches(c, resp.req))

\* C6: every stored course and student has an identifier and
\* created_at <= updated_at.
ReadRecordOk(rec) ==
    /\ ~IsNone(rec.id)
    /\ ~IsNone(rec.created_at)
    /\ ~IsNone(rec.updated_at)
    /\ Val(rec.created_at) <= Val(rec.updated_at)

Answered(t, op, status) ==
    /\ threads[t].pc = "done"
    /\ threads[t].op = op
    /\ threads[t].status = status

C8_NoReappearance ==
    \A t \in Threads :
        Answered(t, "delete_course", 200) => ~Has(courses, Val(threads[t].id))
C8_NoUseAfterDelete ==
    \A t \in Threads : threads[t].err # "KeyError"
C8_NoLostUpdate ==
    \A t, u \in Threads :
        (/\ Answered(t, "update_course", 200)
         /\ Answered(u, "update_course", 200)
         /\ threads[t].id = threads[u].id
         /\ Has(courses, Val(threads[t].id))) =>
            \A f \in DOMAIN threads[t].update :
                Lookup(courses, Val(threads[t].id))[f] = threads[t].update[f]

C8_PerIdentifierAtomic ==
    /\ C8_NoReappearance
    /\ C8_NoUseAfterDelete
    /\ C8_NoLostUpdate

\* C9: a create answers 400 exactly when the new identifier is already a key of
\* its own dictionary, and then changes nothing: create_course looks in courses,
\* create_student in students.
C9_CollisionCheckedInOwnCollection ==
    [][/\ Served("create_course") =>
            /\ resp'.status = 400 <=> Has(courses, PathId)
            /\ resp'.status = 400 => courses' = courses
       /\ Served("create_student") =>
            /\ resp'.status = 400 <=> Has(students, PathId)
            /\ resp'.status = 400 => students' = students
      ]_vars

\* what a student must satisfy to be listed under the two nested parameters
StudentCourseMatches(s, q) ==
    /\ ~IsNone(q.department_code) =>
         \E i \in 1..Len(Val(s.courses)) :
            lower(Val(Val(s.courses)[i].department_code)) = lower(Val(q.department_code))
    /\ ~IsNone(q.instructor) =>
         \E i \in 1..Len(Val(s.courses)) :
            lower(Val(Val(s.courses)[i].instructor)) = lower(Val(q.instructor))

\* C10: with department_code or instructor supplied (and nothing else),
\* list_students answers 200 with exactly the stored students that have an
\* embedded course matching after lower-casing both sides.
C10_NestedFiltersExact ==
    (/\ resp.op = "list_students"
     /\ \A f \in DOMAIN resp.req \ {"department_code", "instructor"} : IsNone(resp.req[f])
     /\ ~IsNone(resp.req.department_code) \/ ~IsNone(resp.req.instructor)) =>
        /\ resp.status = 200
        /\ resp.body = SelectSeq(Values(students),
                                 LAMBDA s : StudentCourseMatches(s, resp.req))

\* ------------------------------------------ main.py:62-79, main.py:139-164
\* The filter steps of the two list handlers, by the parameter each reads, in
\* the order of the code, and each step on its own, so that the steps can be
\* run in another order.
CourseFilterNames ==
    <<"department_code", "course_code", "title", "instructor", "days",
      "start_time", "end_time">>

CourseFilter(name, st, q) ==
    CASE name = "department_code" ->
            FilterStep(st, q.department_code, "", {},
                {c \in Elems(st.results) :
                    lower(Val(c.department_code)) = lower(Val(q.department_code))})
      [] name = "course_code" ->
            FilterStep(st, q.course_code, "AttributeError",
                {c \in Elems(st.results) : NoAttr(c, "course_id")},
                {c \in Elems(st.results) : c["course_id"] = q.course_code})
      [] name = "title" ->
            FilterStep(st, q.title, "", {},
                {c \in Elems(st.results) : StrIn(lower(Val(q.title)), lower(Val(c.title)))})
      [] name = "instructor" ->
            FilterStep(st, q.instructor, "", {},
                {c \in Elems(st.results) :
                    StrIn(lower(Val(q.instructor)), lower(Val(c.instructor)))})
      [] name = "days" ->
            FilterStep(st, q.days, "", {},
                {c \in Elems(st.results) : StrIn(lower(Val(q.days)), lower(Val(c.days)))})
      [] name = "start_time" ->
            FilterStep(st, q.start_time, "", {},
                {c \in Elems(st.results) :
                    lower(Val(c.start_time)) = lower(Val(q.start_time))})
      [] name = "end_time" ->
            FilterStep(st, q.end_time, "", {},
                {c \in Elems(st.results) :
                    lower(Val(c.end_time)) = lower(Val(q.end_time))})

RECURSIVE RunCourseFilters(_, _, _)
RunCourseFilters(st, q, order) ==
    IF order = << >> THEN st
    ELSE RunCourseFilters(CourseFilter(Head(order), st, q), q, Tail(order))

StudentFilterNames ==
    <<"uni", "first_name", "last_name", "major", "grade", "email", "phone",
      "birth_date", "department_code", "instructor">>

StudentFilter(name, st, q) ==
    CASE name = "uni" ->
            FilterStep(st, q.uni, "", {},
                {s \in Elems(st.results) : lower(Val(s.uni)) = lower(Val(q.uni))})
      [] name = "first_name" ->
            FilterStep(st, q.first_name, "", {},
                {s \in Elems(st.results) :
                    lower(Val(s.first_name)) = lower(Val(q.first_name))})
      [] name = "last_name" ->
            FilterStep(st, q.last_name, "", {},
                {s \in Elems(st.results) :
                    lower(Val(s.last_name)) = lower(Val(q.last_name))})
      [] name = "major" ->
            FilterStep(st, q.major, "", {},
                {s \in Elems(st.results) : lower(Val(s.major)) = lower(Val(q.major))})
      [] name = "grade" ->
            FilterStep(st, q.grade, "", {},
                {s \in Elems(st.results) : lower(Val(s.grade)) = lower(Val(q.grade))})
      [] name = "email" ->
            FilterStep(st, q.email, "", {},
                {s \in Elems(st.results) : s.email = q.email})
      [] name = "phone" ->
            FilterStep(st, q.phone, "", {},
                {s \in Elems(st.results) : s.phone = q.phone})
      [] name = "birth_date" ->
            FilterStep(st, q.birth_date, "", {},
                {s \in Elems(st.results) : PyStr(s.birth_date) = Val(q.birth_date)})
      [] name = "department_code" ->
            FilterStep(st, q.department_code, "", {},
                {s \in Elems(st.results) :
                    \E i \in 1..Len(Val(s.courses)) :
                        lower(Val(Val(s.courses)[i].department_code))
                            = lower(Val(q.department_code))})
      [] name = "instructor" ->
            FilterStep(st, q.instructor, "NameError",
                {s \in Elems(st.results) : Undefined("p")},
                {s \in Elems(st.results) :
                    \E i \in 1..Len(Val(s.courses)) :
                        lower(Val(Val(s.courses)[i].instructor))
                            = lower(Val(q.instructor))})

RECURSIVE RunStudentFilters(_, _, _)
RunStudentFilters(st, q, order) ==
    IF order = << >> THEN st
    ELSE RunStudentFilters(StudentFilter(Head(order), st, q), q, Tail(order))

\* the orders got from a given one by exchanging two of its steps (or none)
Exchanged(order) ==
    {[k \in 1..Len(order) |->
        IF k = i THEN order[j] ELSE IF k = j THEN order[i] ELSE order[k]] :
     i \in 1..Len(order), j \in 1..Len(order)}

\* C11: for every store and every set of supplied parameters, the outcome of a
\* list handler (its result list, or its error) is the same in whatever order
\* its filter steps are applied, so it does not depend on an earlier step
\* having emptied the intermediate list. Checked for the orders that exchange
\* two steps of the code's order.
C11_FilterOrderIrrelevant ==
    /\ \A q \in CourseQueries, order \in Exchanged(CourseFilterNames) :
          RunCourseFilters([err |-> "", results |-> Values(courses)], q, order)
            = list_courses_run(courses, q)
    /\ \A q \in StudentQueries, order \in Exchanged(StudentFilterNames) :
          RunStudentFilters([err |-> "", results |-> Values(students)], q, order)
            = list_students_run(students, q)

\* the Create-required fields that an update body sets to null
NullRequired(u, required) == {f \in DOMAIN u \cap required : IsNone(u[f])}

\* C12: an update body that sets a Create-required field (title, size, uni,
\* ...) to null is turned away by the Update schema before the handler runs
\* (422), so update_course and update_person never fail while building a Read
\* record with a null in a required field: such a request ends in 422, or in
\* 404 when the identifier is absent, never in the handler's ValidationError.
C12_NullRequiredRejectedBySchema ==
    /\ (resp.op = "update_course" /\ NullRequired(resp.req, CourseRequired) # {}) =>
            /\ resp.status \in {404, 422}
            /\ resp.err # "ValidationError"
    /\ (resp.op = "update_person" /\ NullRequired(resp.req, StudentRequired) # {}) =>
            /\ resp.status \in {404, 422}
            /\ resp.err # "ValidationError"

\* the operations that take a path identifier and look it up first
CourseLookups == {"get_course", "update_course", "delete_course"}
StudentLookups == {"get_person", "update_person", "delete_person"}

\* C13: a handler invocation that ends in an error leaves both dictionaries as
\* they were. In particular get, partial update and delete of an absent
\* identifier answer 404 and change nothing, and a partial update whose merged
\* record fails Read validation leaves the stored record, its updated_at
\* included, in place.
C13_ErrorsLeaveStoresUnchanged ==
    [][/\ resp'.status >= 400 => (courses' = courses /\ students' = students)
       /\ (resp'.op \in CourseLookups /\ resp'.status # 422 /\ ~Has(courses, PathId)) =>
            (resp'.status = 404 /\ courses' = courses /\ students' = students)
       /\ (resp'.op \in StudentLookups /\ resp'.status # 422 /\ ~Has(students, PathId)) =>
            (resp'.status = 404 /\ courses' = courses /\ students' = students)
       /\ (resp'.op \in {"update_course", "update_person"}
              /\ resp'.err = "ValidationError") =>
            (courses' = courses /\ students' = students)
      ]_vars
\* an update of a stored course has failed Read validation after reading a
\* later clock, and the record still carries its earlier updated_at
C13_Witness ==
    /\ resp.op = "update_course"
    /\ resp.err = "ValidationError"
    /\ Has(courses, Val(resp.id))
    /\ Val(Lookup(courses, Val(resp.id)).updated_at) < clock

CourseOps ==
    {"create_course", "list_courses", "get_course", "update_course", "delete_course"}
StudentOps ==
    {"create_student", "list_students", "get_person", "update_person", "delete_person"}
ReadOps == {"list_courses", "get_course", "list_students", "get_person"}

\* C14: the two dictionaries are independent: a course operation (create,
\* partial update, delete, get, list) leaves students unchanged, the courses
\* list embedded in every student included; a student operation leaves courses
\* unchanged; get and list of either resource change neither.
C14_StoresIndependent ==
    [][/\ resp'.op \in CourseOps => students' = students
       /\ resp'.op \in StudentOps => courses' = courses
       /\ resp'.op \in ReadOps => (courses' = courses /\ students' = students)
      ]_vars

\* a course has been deleted from courses while a student still embeds a
\* course with its course_code
C14_Witness ==
    /\ resp.op = "delete_course"
    /\ resp.status = 200
    /\ ~Has(courses, Val(resp.id))
    /\ \E i \in 1..Len(students) :
          \E j \in 1..Len(Val(students[i].val.courses)) :
              Val(students[i].val.courses)[j].course_code = resp.body[1].course_code

====
